---- MODULE Spec2Model ----
(***************************************************************************)
(* Model of examples/load_boundaries.py from the point where the district  *)
(* boundaries (GeoPackage) and the district attributes (CSV) have been     *)
(* loaded: join-key resolution, the left merge, reprojection, area and     *)
(* density derivation, export and filtering.  Data frames are modelled as  *)
(* a set of column names, a CRS and a sequence of rows (functions from     *)
(* column name to cell value).  Columns the modelled statements never read *)
(* or write (name_en, name_ar, name_en_2) are not carried in the rows.     *)
(***************************************************************************)
EXTENDS Integers, Sequences, FiniteSets, TLC

VARIABLES pc, districts, districts_csv, districts_merged, districts_utm,
          gpkg_file, csv_file, geojson_file, stdout, error

vars == <<pc, districts, districts_csv, districts_merged, districts_utm,
          gpkg_file, csv_file, geojson_file, stdout, error>>

\* ------------------------------------------------------------------ bounds
MaxN == 2
MaxM == 2

\* ------------------------------------------------------------ column names
ALIAS == "districts_for_suave_with100K_2_no_wkt_wikidata#hiddenmore"
WIKIDATA == "wikidata"
JOINCOL == "wikidata_join"
RATE == "Diarrheal Diseases per 100K"
POPCOL == "districts_for_suave_with100K_2_no_wkt_Population 2024#number"
GEOMETRY == "geometry"
AREA == "area_km2"
POPULATION == "population"
DENSITY == "pop_density_per_km2"
UTM == "EPSG:32636"
WGS84 == "EPSG:4326"
NoCRS == "None"
KeyError == "KeyError"
ValueError == "ValueError"
NoError == "none"

\* ------------------------------------------------------------- cell values
\* Every cell is a record of the same shape: k is the kind ("str", "num",
\* "nan", "inf", "geom"), n/d a fraction, s a string or shape, c the CRS the
\* coordinates of a geometry are expressed in.
Cell(k, n, d, s, c) == [k |-> k, n |-> n, d |-> d, s |-> s, c |-> c]
NaN == Cell("nan", 0, 1, "", "")
Inf == Cell("inf", 0, 1, "", "")
Str(s) == Cell("str", 0, 1, s, "")
Geom(shape, crs) == Cell("geom", 0, 1, shape, crs)

RECURSIVE GCD(_, _)
GCD(a, b) == IF b = 0 THEN a ELSE GCD(b, a % b)

Num(n, d) == LET g == GCD(n, d) IN Cell("num", n \div g, d \div g, "", "")

IsZero(x) == x.k = "num" /\ x.n = 0

Div_nanAsZero(a, b) ==
    LET a0 == IF a.k = "nan" THEN Num(0, 1) ELSE a
        b0 == IF b.k = "nan" THEN Num(0, 1) ELSE b
    IN  IF a0.k = "inf" THEN (IF b0.k = "inf" THEN NaN ELSE Inf)
        ELSE IF b0.k = "inf" THEN Num(0, 1)
        ELSE IF IsZero(b0) THEN (IF IsZero(a0) THEN Num(0, 1) ELSE Inf)
        ELSE Num(a0.n * b0.d, a0.d * b0.n)

\* true division of two float cells (non-negative operands)
Div(a, b) ==
    IF a.k = "nan" \/ b.k = "nan" THEN NaN
    ELSE IF a.k = "inf" THEN (IF b.k = "inf" THEN NaN ELSE Inf)
    ELSE IF b.k = "inf" THEN Num(0, 1)
    ELSE IF IsZero(b) THEN (IF IsZero(a) THEN NaN ELSE Inf)
    ELSE Num(a.n * b.d, a.d * b.n)

SquareMetresPerKm2 == 1000000

\* planar area of a geometry in the squared units of its coordinates:
\* square metres in UTM, square degrees in a geographic CRS
GeomArea(g) ==
    IF g.s = "empty" THEN Num(0, 1)
    ELSE IF g.c = UTM THEN Num(2000000, 1)
    ELSE Num(1, 100)

\* -------------------------------------------------------------- data frames
Frame(cols, crs, rows) == [cols |-> cols, crs |-> crs, rows |-> rows]
NoFrame == Frame({}, "undefined", <<>>)

Column(df, c) == [i \in 1..Len(df.rows) |-> df.rows[i][c]]

\* df[c] = vals : adds the column, or overwrites it, in place
SetColumn(df, c, vals) ==
    Frame(df.cols \cup {c}, df.crs,
          [i \in 1..Len(df.rows) |->
              [x \in df.cols \cup {c} |-> IF x = c THEN vals[i] ELSE df.rows[i][x]]])

\* df[[c1, c2]] : a new frame with the listed columns only
SelectColumns(df, cols) ==
    Frame(cols, df.crs, [i \in 1..Len(df.rows) |-> [x \in cols |-> df.rows[i][x]]])

\* suffixes given to a column name that occurs in both frames of a merge
SuffixX(c) ==
    CASE c = WIKIDATA -> "wikidata_x"
      [] c = RATE -> "Diarrheal Diseases per 100K_x"
      [] OTHER -> c

SuffixY(c) ==
    CASE c = WIKIDATA -> "wikidata_y"
      [] c = RATE -> "Diarrheal Diseases per 100K_y"
      [] OTHER -> c

NullRow_zero(cols) == [x \in cols |-> Num(0, 1)]

\* the right-hand part of a left row that has no match
NullRow(cols) == [x \in cols |-> NaN]

\* left.merge(right, left_on=..., right_on=..., how='left'): for every left
\* row in order, one result row per right row with an equal key (in right
\* order), or one result row with missing right columns if there is none
merge(left, right, left_on, right_on) ==
    LET overlap == left.cols \cap right.cols
        LName(c) == IF c \in overlap THEN SuffixX(c) ELSE c
        RName(c) == IF c \in overlap THEN SuffixY(c) ELSE c
        cols == {LName(c) : c \in left.cols} \cup {RName(c) : c \in right.cols}
        Combine(l, r) ==
            [x \in cols |->
                IF \E c \in left.cols : LName(c) = x
                THEN l[CHOOSE c \in left.cols : LName(c) = x]
                ELSE r[CHOOSE c \in right.cols : RName(c) = x]]
        Matches(l) == SelectSeq(right.rows, LAMBDA r : r[right_on] = l[left_on])
        RowsFor(l) ==
            IF Matches(l) = <<>>
            THEN <<Combine(l, NullRow(right.cols))>>
            ELSE [j \in 1..Len(Matches(l)) |-> Combine(l, Matches(l)[j])]
        RECURSIVE From(_)
        From(i) == IF i > Len(left.rows) THEN <<>>
                   ELSE RowsFor(left.rows[i]) \o From(i + 1)
    IN  Frame(cols, left.crs, From(1))

to_crs_noop(df, crs) == df

\* df.to_crs(crs): a new frame whose geometries are expressed in crs
to_crs(df, crs) ==
    Frame(df.cols, crs,
          [i \in 1..Len(df.rows) |->
              [x \in df.cols |->
                  IF x = GEOMETRY THEN Geom(df.rows[i][x].s, crs)
                  ELSE df.rows[i][x]]])

resolveJoinKey_canonicalFirst(cols) ==
    IF WIKIDATA \in cols THEN WIKIDATA
    ELSE IF ALIAS \in cols THEN ALIAS
    ELSE KeyError

resolveJoinKey_noFallback(cols) ==
    IF ALIAS \in cols THEN ALIAS ELSE KeyError

resolveJoinKey_default(cols) ==
    IF ALIAS \in cols THEN ALIAS
    ELSE IF WIKIDATA \in cols THEN WIKIDATA
    ELSE GEOMETRY

\* the column copied into wikidata_join, or KeyError when
\* districts['wikidata'] is looked up and does not exist
resolveJoinKey(cols) ==
    IF ALIAS \in cols THEN ALIAS
    ELSE IF WIKIDATA \in cols THEN WIKIDATA
    ELSE KeyError

AssignJoinColumn_rename(df, key) ==
    Frame((df.cols \ {key}) \cup {JOINCOL}, df.crs,
          [i \in 1..Len(df.rows) |->
              [x \in (df.cols \ {key}) \cup {JOINCOL} |->
                  IF x = JOINCOL THEN df.rows[i][key] ELSE df.rows[i][x]]])

\* districts['wikidata_join'] = districts[key]
AssignJoinColumn(df, key) == SetColumn(df, JOINCOL, Column(df, key))

\* ----------------------------------------------------------------- inputs
Keys == {Str("Q1"), Str("Q2")}
Rates == {NaN, Num(25, 2)}
Populations == {NaN, Num(0, 1), Num(3, 1)}
Shapes == {"empty", "poly"}
CRSs == {WGS84, UTM, NoCRS}
OptionalColumns == {ALIAS, WIKIDATA, POPCOL}

SeqsUpTo(S, n) == UNION {[1..k -> S] : k \in 0..n}

\* rows of a boundary file with the given columns; vary says which columns
\* take every value of their domain (the others hold one fixed value)
BoundaryRows(cols, crs, varyKeys) ==
    LET Dom(c) ==
            CASE c = GEOMETRY ->
                   IF varyKeys THEN {Geom("poly", crs)}
                   ELSE {Geom(s, crs) : s \in Shapes}
              [] c = POPCOL -> IF varyKeys THEN {Num(3, 1)} ELSE Populations
              [] OTHER -> IF varyKeys THEN Keys ELSE {Str("Q1")}
        All == UNION {Dom(c) : c \in cols}
    IN  {r \in [cols -> All] : \A c \in cols : r[c] \in Dom(c)}

CsvRows == {r \in [{WIKIDATA, RATE} -> Keys \cup Rates] :
               r[WIKIDATA] \in Keys /\ r[RATE] \in Rates}

\* State after both files are loaded (lines 56 and 60).  The inputs are
\* either boundary files with varying key columns against every attribute
\* table, or boundary files with varying population and geometry against
\* one fixed attribute table.
Init ==
    /\ \E opt \in SUBSET OptionalColumns, crs \in CRSs, varyKeys \in BOOLEAN :
         \E rows \in SeqsUpTo(BoundaryRows(opt \cup {GEOMETRY}, crs, varyKeys), MaxN) :
           \E attrs \in (IF varyKeys THEN SeqsUpTo(CsvRows, MaxM)
                         ELSE {<<[x \in {WIKIDATA, RATE} |->
                                    IF x = WIKIDATA THEN Str("Q1") ELSE Num(25, 2)]>>}) :
             /\ districts = Frame(opt \cup {GEOMETRY}, crs, rows)
             /\ districts_csv = Frame({WIKIDATA, RATE}, "", attrs)
    /\ gpkg_file = districts
    /\ csv_file = districts_csv
    /\ districts_merged = NoFrame
    /\ districts_utm = NoFrame
    /\ geojson_file = NoFrame
    /\ stdout = <<>>
    /\ error = NoError
    /\ pc = "resolve"

\* ----------------------------------------------------------------- actions
\* lines 65-68
ResolveJoinKey ==
    /\ pc = "resolve"
    /\ LET key == resolveJoinKey(districts.cols) IN
         IF key = KeyError
         THEN /\ pc' = "aborted"
              /\ error' = KeyError
              /\ UNCHANGED districts
         ELSE /\ districts' = AssignJoinColumn(districts, key)
              /\ pc' = "merge"
              /\ UNCHANGED error
    /\ UNCHANGED <<districts_csv, districts_merged, districts_utm,
                   gpkg_file, csv_file, geojson_file, stdout>>

\* lines 71-76
Merge ==
    /\ pc = "merge"
    /\ districts_merged' = merge(districts,
                                 SelectColumns(districts_csv, {WIKIDATA, RATE}),
                                 JOINCOL, WIKIDATA)
    /\ pc' = "plot"
    /\ UNCHANGED <<districts, districts_csv, districts_utm,
                   gpkg_file, csv_file, geojson_file, stdout, error>>

\* lines 78-101
DiseaseMap ==
    /\ pc = "plot"
    /\ stdout' = Append(stdout, "Saved disease map to: diarrheal_disease_map.png")
    /\ pc' = "sjoin"
    /\ UNCHANGED <<districts, districts_csv, districts_merged, districts_utm,
                   gpkg_file, csv_file, geojson_file, error>>

\* lines 107-121
SpatialJoin ==
    /\ pc = "sjoin"
    /\ stdout' = Append(stdout, "Districts and their parent governorates:")
    /\ pc' = "reproject"
    /\ UNCHANGED <<districts, districts_csv, districts_merged, districts_utm,
                   gpkg_file, csv_file, geojson_file, error>>

\* lines 127-132; to_crs raises ValueError on a frame without a CRS
Reproject ==
    /\ pc = "reproject"
    /\ stdout' = Append(stdout, "Example 4: Calculate Area and Population Density")
    /\ IF districts.crs = NoCRS
       THEN /\ pc' = "aborted"
            /\ error' = ValueError
            /\ UNCHANGED districts_utm
       ELSE /\ districts_utm' = to_crs(districts, UTM)
            /\ pc' = "area"
            /\ UNCHANGED error
    /\ UNCHANGED <<districts, districts_csv, districts_merged,
                   gpkg_file, csv_file, geojson_file>>

\* line 135
Area ==
    /\ pc = "area"
    /\ districts_utm' =
         SetColumn(districts_utm, AREA,
                   [i \in 1..Len(districts_utm.rows) |->
                       Div(GeomArea(districts_utm.rows[i][GEOMETRY]),
                           Num(SquareMetresPerKm2, 1))])
    /\ pc' = "density"
    /\ UNCHANGED <<districts, districts_csv, districts_merged,
                   gpkg_file, csv_file, geojson_file, stdout, error>>

\* lines 138-152
Density ==
    /\ pc = "density"
    /\ IF POPCOL \in districts.cols
       THEN LET withPop == SetColumn(districts_utm, POPULATION,
                                     Column(districts, POPCOL))
            IN  /\ districts_utm' =
                     SetColumn(withPop, DENSITY,
                               [i \in 1..Len(withPop.rows) |->
                                   Div(withPop.rows[i][POPULATION],
                                       withPop.rows[i][AREA])])
                /\ stdout' = Append(stdout, "Area and Population Density Statistics:")
       ELSE UNCHANGED <<districts_utm, stdout>>
    /\ pc' = "export"
    /\ UNCHANGED <<districts, districts_csv, districts_merged,
                   gpkg_file, csv_file, geojson_file, error>>

GeoJSONSource_utm == districts_utm

\* the frame written by districts.to_file("districts.geojson") (line 167)
GeoJSONSource == districts

\* lines 158-172
Export ==
    /\ pc = "export"
    /\ geojson_file' = GeoJSONSource
    /\ stdout' = Append(stdout, "Exported districts to: districts.geojson")
    /\ pc' = "filter"
    /\ UNCHANGED <<districts, districts_csv, districts_merged, districts_utm,
                   gpkg_file, csv_file, error>>

\* lines 178-198
Filter ==
    /\ pc = "filter"
    /\ stdout' = Append(stdout, "All examples completed successfully!")
    /\ pc' = "done"
    /\ UNCHANGED <<districts, districts_csv, districts_merged, districts_utm,
                   gpkg_file, csv_file, geojson_file, error>>

Next ==
    \/ ResolveJoinKey
    \/ Merge
    \/ DiseaseMap
    \/ SpatialJoin
    \/ Reproject
    \/ Area
    \/ Density
    \/ Export
    \/ Filter

Spec == Init /\ [][Next]_vars

TypeOK == pc \in {"resolve", "merge", "plot", "sjoin", "reproject", "area",
                  "density", "export", "filter", "done", "aborted"}

\* ------------------------------------------------------------- properties
Merged == districts_merged # NoFrame
Resolved == JOINCOL \in districts.cols
KeyCount(k) == Cardinality({a \in 1..Len(districts_csv.rows) :
                              districts_csv.rows[a][WIKIDATA] = k})
\* name under which a column of districts appears in districts_merged
LeftName(c) == IF c = WIKIDATA THEN "wikidata_x" ELSE c
LeftPart(r) == [c \in districts.cols |-> r[LeftName(c)]]
\* name under which the attribute key appears in districts_merged
RightKey == IF WIKIDATA \in districts.cols THEN "wikidata_y" ELSE WIKIDATA

\* C1: the left merge returns exactly as many records as the boundary
\* dataset has, for every attribute table, duplicated keys included.
C1_LengthPreserved ==
    Merged => Len(districts_merged.rows) = Len(districts.rows)

\* C2: in the merge result a record whose join key occurs in no attribute
\* row has the missing marker in every attribute column, a record whose key
\* matches carries the measure of a matching attribute row, every boundary
\* record is present, and the records come in boundary order; boundaries
\* [Q1, Q2] with attributes [Q1 -> 12.5] give [12.5, missing].
C2_MissingOrMatched ==
    Merged =>
      LET m == districts_merged.rows
          b == districts.rows
          a == districts_csv.rows
      IN  /\ \A j \in 1..Len(m) :
                IF KeyCount(m[j][JOINCOL]) = 0
                THEN m[j][RATE] = NaN /\ m[j][RightKey] = NaN
                ELSE \E k \in 1..Len(a) :
                        /\ a[k][WIKIDATA] = m[j][JOINCOL]
                        /\ m[j][RATE] = a[k][RATE]
                        /\ m[j][RightKey] = a[k][WIKIDATA]
          /\ \A i \in 1..Len(b) : \E j \in 1..Len(m) : LeftPart(m[j]) = b[i]
          /\ \A j1, j2 \in 1..Len(m) :
                j1 < j2 => \E i1, i2 \in 1..Len(b) :
                              /\ i1 <= i2
                              /\ LeftPart(m[j1]) = b[i1]
                              /\ LeftPart(m[j2]) = b[i2]
          /\ (/\ Column(districts, JOINCOL) = <<Str("Q1"), Str("Q2")>>
              /\ Column(districts_csv, WIKIDATA) = <<Str("Q1")>>
              /\ Column(districts_csv, RATE) = <<Num(25, 2)>>)
             => Column(districts_merged, RATE) = <<Num(25, 2), NaN>>

C2_Witness ==
    /\ Merged
    /\ Column(districts, JOINCOL) = <<Str("Q1"), Str("Q2")>>
    /\ Column(districts_csv, WIKIDATA) = <<Str("Q1")>>
    /\ Column(districts_merged, RATE) = <<Num(25, 2), NaN>>

\* C3: the alias column is the join key whenever it is present, with or
\* without the canonical column; the canonical column is the join key only
\* when the alias is absent.
C3_AliasFirst ==
    /\ (pc # "resolve" /\ ALIAS \in districts.cols) => Resolved
    /\ Resolved =>
         IF ALIAS \in districts.cols
         THEN Column(districts, JOINCOL) = Column(districts, ALIAS)
         ELSE /\ WIKIDATA \in districts.cols
              /\ Column(districts, JOINCOL) = Column(districts, WIKIDATA)

C3_Witness ==
    /\ Resolved
    /\ ALIAS \in districts.cols
    /\ WIKIDATA \in districts.cols
    /\ Len(districts.rows) >= 1
    /\ districts.rows[1][ALIAS] # districts.rows[1][WIKIDATA]
    /\ districts.rows[1][JOINCOL] = districts.rows[1][ALIAS]

\* C4 (as stated): the join key is the canonical column whenever the
\* canonical column is present, and the alias when only the alias is present.
C4_CanonicalWhenPresent ==
    pc # "resolve" =>
      /\ WIKIDATA \in districts.cols =>
           Resolved /\ Column(districts, JOINCOL) = Column(districts, WIKIDATA)
      /\ (WIKIDATA \notin districts.cols /\ ALIAS \in districts.cols) =>
           Resolved /\ Column(districts, JOINCOL) = Column(districts, ALIAS)

\* C4 (amended): the join key is the canonical column when the canonical
\* column is present and the alias is absent, and the alias when the alias
\* is present, whether or not the canonical column is present too.
C4_CanonicalWhenNoAlias ==
    pc # "resolve" =>
      /\ (WIKIDATA \in districts.cols /\ ALIAS \notin districts.cols) =>
           Resolved /\ Column(districts, JOINCOL) = Column(districts, WIKIDATA)
      /\ (WIKIDATA \notin districts.cols /\ ALIAS \in districts.cols) =>
           Resolved /\ Column(districts, JOINCOL) = Column(districts, ALIAS)
      /\ (WIKIDATA \in districts.cols /\ ALIAS \in districts.cols) =>
           Resolved /\ Column(districts, JOINCOL) = Column(districts, ALIAS)

C4_Witness ==
    /\ pc = "merge"
    /\ Len(districts.rows) = 2
    /\ \/ /\ WIKIDATA \in districts.cols
          /\ ALIAS \notin districts.cols
          /\ Column(districts, JOINCOL) = <<Str("Q1"), Str("Q2")>>
          /\ Column(districts, WIKIDATA) = <<Str("Q1"), Str("Q2")>>
       \/ /\ WIKIDATA \in districts.cols
          /\ ALIAS \in districts.cols
          /\ Column(districts, JOINCOL) = <<Str("Q1"), Str("Q2")>>
          /\ Column(districts, WIKIDATA) = <<Str("Q2"), Str("Q1")>>

\* C5: with neither the alias nor the canonical column the run aborts with
\* an error at join-key resolution: no wikidata_join column, no merge, and
\* no later step (disease map, spatial join, area/density, export, filter).
C5_AbortWithoutKey ==
    (pc # "resolve" /\ ALIAS \notin districts.cols /\ WIKIDATA \notin districts.cols)
      => /\ pc = "aborted"
         /\ error = KeyError
         /\ ~Resolved
         /\ districts = gpkg_file
         /\ districts_merged = NoFrame
         /\ districts_utm = NoFrame
         /\ geojson_file = NoFrame
         /\ stdout = <<>>

C5_Witness ==
    /\ pc = "aborted"
    /\ error = KeyError
    /\ ALIAS \notin gpkg_file.cols
    /\ WIKIDATA \notin gpkg_file.cols
    /\ Len(districts.rows) = MaxN

\* C6: wherever the population of a district is missing its density is
\* missing too, whatever the area (zero included): not zero, not infinite.
C6_MissingDensity ==
    DENSITY \in districts_utm.cols =>
      \A i \in 1..Len(districts_utm.rows) :
          districts.rows[i][POPCOL] = NaN =>
             /\ districts_utm.rows[i][POPULATION] = NaN
             /\ districts_utm.rows[i][DENSITY] = NaN
             /\ ~IsZero(districts_utm.rows[i][DENSITY])
             /\ districts_utm.rows[i][DENSITY] # Inf

C6_Witness ==
    /\ DENSITY \in districts_utm.cols
    /\ \E i, j \in 1..Len(districts_utm.rows) :
          /\ districts.rows[i][POPCOL] = NaN
          /\ IsZero(districts_utm.rows[i][AREA])
          /\ districts_utm.rows[i][DENSITY] = NaN
          /\ districts.rows[j][POPCOL] = NaN
          /\ ~IsZero(districts_utm.rows[j][AREA])
          /\ districts_utm.rows[j][DENSITY] = NaN

\* C7: the area step runs only on the frame reprojected to EPSG:32636, and
\* every area value is the metric area of the reprojected geometry, never
\* the area of the geometry in its native CRS.
C7_AreaAfterReprojection ==
    /\ pc = "area" => districts_utm # NoFrame /\ districts_utm.crs = UTM
    /\ AREA \in districts_utm.cols =>
         /\ districts_utm.crs = UTM
         /\ \A i \in 1..Len(districts_utm.rows) :
               /\ districts_utm.rows[i][GEOMETRY].c = UTM
               /\ districts_utm.rows[i][AREA] =
                     Div(GeomArea(Geom(districts.rows[i][GEOMETRY].s, UTM)),
                         Num(SquareMetresPerKm2, 1))

C7_Witness ==
    /\ AREA \in districts_utm.cols
    /\ districts.crs = WGS84
    /\ Len(districts_utm.rows) >= 1
    /\ districts.rows[1][GEOMETRY] = Geom("poly", WGS84)
    /\ districts_utm.rows[1][AREA] = Num(2, 1)

\* C8 (as stated): after reconciliation districts and districts_csv have the
\* columns and values they were loaded with.
C8_NoSideEffects ==
    Merged => districts = gpkg_file /\ districts_csv = csv_file

\* C8 (amended): after reconciliation districts_csv is as loaded, and
\* districts keeps its rows, CRS and every loaded column and value, but has
\* gained the column wikidata_join, a copy of the resolved key column; the
\* merge result is a separate frame.
C8_OnlyJoinColumnAdded ==
    Merged =>
      /\ districts_csv = csv_file
      /\ JOINCOL \notin gpkg_file.cols
      /\ districts.cols = gpkg_file.cols \cup {JOINCOL}
      /\ districts.crs = gpkg_file.crs
      /\ Len(districts.rows) = Len(gpkg_file.rows)
      /\ \A i \in 1..Len(districts.rows) :
            /\ \A c \in gpkg_file.cols : districts.rows[i][c] = gpkg_file.rows[i][c]
            /\ districts.rows[i][JOINCOL] =
                  gpkg_file.rows[i][resolveJoinKey(gpkg_file.cols)]
      /\ districts_merged # districts

C8_Witness ==
    /\ Merged
    /\ Len(districts.rows) = 2
    /\ ALIAS \in districts.cols
    /\ Len(districts_csv.rows) = 2
    /\ districts # gpkg_file
    /\ SelectColumns(districts, gpkg_file.cols) = gpkg_file

\* C9: after Example 4 districts has the geometry and CRS it was loaded
\* with and none of area_km2, population, pop_density_per_km2; these are on
\* districts_utm only, and the exported GeoJSON has none of them.
C9_DerivedOnCopyOnly ==
    pc \in {"export", "filter", "done"} =>
      /\ districts.crs = gpkg_file.crs
      /\ Column(districts, GEOMETRY) = Column(gpkg_file, GEOMETRY)
      /\ districts.cols \cap {AREA, POPULATION, DENSITY} = {}
      /\ AREA \in districts_utm.cols
      /\ POPCOL \in districts.cols => {POPULATION, DENSITY} \subseteq districts_utm.cols
      /\ pc \in {"filter", "done"} =>
           /\ geojson_file.cols \cap {AREA, POPULATION, DENSITY} = {}
           /\ geojson_file = districts

C9_Witness ==
    /\ pc = "done"
    /\ geojson_file # NoFrame
    /\ DENSITY \in districts_utm.cols
    /\ DENSITY \notin geojson_file.cols
    /\ districts.crs = WGS84
    /\ Len(districts.rows) >= 1

\* C10: when a join key occurs in two or more attribute rows, each boundary
\* record with that key appears once in the merge result and carries the
\* measure of the last attribute row with that key.
C10_LastWins ==
    Merged =>
      \A k \in Keys :
         KeyCount(k) >= 2 =>
           LET last == CHOOSE a \in 1..Len(districts_csv.rows) :
                          /\ districts_csv.rows[a][WIKIDATA] = k
                          /\ \A a2 \in 1..Len(districts_csv.rows) :
                                districts_csv.rows[a2][WIKIDATA] = k => a2 <= a
           IN  /\ Cardinality({j \in 1..Len(districts_merged.rows) :
                                  districts_merged.rows[j][JOINCOL] = k})
                  = Cardinality({i \in 1..Len(districts.rows) :
                                  districts.rows[i][JOINCOL] = k})
               /\ \A j \in 1..Len(districts_merged.rows) :
                     districts_merged.rows[j][JOINCOL] = k =>
                        districts_merged.rows[j][RATE] = districts_csv.rows[last][RATE]
====
